---------------------------- MODULE Spec2Model ----------------------------
(***************************************************************************)
(* A model of the response reconstruction pipeline and of the question     *)
(* distribution of AI-Study-Coach (backend/app.py, backend/main.py).       *)
(*                                                                         *)
(* A text is a sequence of one-character strings.  A JSON value is a       *)
(* tagged record [k, v]; a Python dict is the ordered sequence of its      *)
(* <<key, value>> pairs (insertion order, keys unique), a list is a        *)
(* sequence of values.                                                     *)
(***************************************************************************)
EXTENDS Integers, Sequences, FiniteSets, TLC

VARIABLES
    response_text,    \* generate_quiz: the generator's raw text (response.text)
    parts,            \* how response_text was put together (input bookkeeping)
    repaired,         \* generate_quiz: repaired_json_string, or the error raised
    quiz_json,        \* generate_quiz: the result of json.loads
    http,             \* generate_quiz: the HTTP response returned
    ai_response,      \* normalizer run: the parsed value handed to the normalizer
    once,             \* normalizer run: the value after one normalization
    twice,            \* normalizer run: the value after two normalizations
    npc,              \* normalizer run: how many normalizations were applied
    dist_in,          \* distributor run: [labels, total]
    dist_out,         \* distributor run: the sequences both distributors return
    gpc,              \* generate: position of the handler
    config,           \* generate: the request's config
    type_distribution,\* generate: the CategoryCount sequence being iterated
    idx,              \* generate: index of the next category
    all_questions,    \* generate: the questions gathered so far
    calls,            \* generate: log of the generator calls made
    reply             \* generate: the HTTP response returned

qvars == <<response_text, parts, repaired, quiz_json, http>>
nvars == <<ai_response, once, twice, npc>>
dvars == <<dist_in, dist_out>>
gvars == <<gpc, config, type_distribution, idx, all_questions, calls, reply>>
vars == <<qvars, nvars, dvars, gvars>>

-----------------------------------------------------------------------------
(* Texts *)

\* Python's str.find / str.rfind return -1 for "not found".
NotFound == -1

\* The backtick character (the lexer of TLA+ takes no backtick in a string).
BT == "BACKTICK"
QUOTE == "\""
FENCE == <<BT, BT, BT>>
W_json == <<"j", "s", "o", "n">>
W_math == <<"m", "a", "t", "h">>

\* The whitespace class of re on the characters of the model's alphabet.
IsSpace(c) == c \in {" ", "\t", "\n", "\r", "\f"}

\* text[i:].startswith(w), i a 1-based position
StartsWithAt(t, i, w) ==
    /\ i >= 1
    /\ i + Len(w) - 1 <= Len(t)
    /\ SubSeq(t, i, i + Len(w) - 1) = w

\* The position after the longest run of whitespace starting at i.
SkipSpace(t, i) ==
    CHOOSE j \in i..(Len(t) + 1) :
        /\ \A k \in i..(j - 1) : IsSpace(t[k])
        /\ (j = Len(t) + 1 \/ ~IsSpace(t[j]))

\* Python text.find(c): 0-based index of the first c, or -1.
Find(t, c) ==
    IF \E i \in 1..Len(t) : t[i] = c
    THEN (CHOOSE i \in 1..Len(t) : t[i] = c /\ \A j \in 1..(i - 1) : t[j] # c) - 1
    ELSE NotFound

\* Python text.rfind(c): 0-based index of the last c, or -1.
RFind(t, c) ==
    IF \E i \in 1..Len(t) : t[i] = c
    THEN (CHOOSE i \in 1..Len(t) : t[i] = c /\ \A j \in (i + 1)..Len(t) : t[j] # c) - 1
    ELSE NotFound

\* Python text[a:b] for 0 <= a, 0 <= b <= len(text): empty when b <= a.
Slice(t, a, b) == SubSeq(t, a + 1, b)

Max(a, b) == IF a >= b THEN a ELSE b

\* sub in s (Python substring test)
Contains(s, sub) == \E i \in 1..(Len(s) + 1) : StartsWithAt(s, i, sub)

-----------------------------------------------------------------------------
(* extract_and_repair_json, app.py 40-64 *)

\* The tail of the pattern after the opening fence and the optional tag:
\*   \s*(\{.*?\}|```math.*?```)\s*```
\* from position b.  \s* is greedy, and the group starts with a character
\* that is no whitespace, so the group starts at the first non-space; .*? is
\* lazy, so the group ends at the first candidate the rest of the pattern
\* accepts.  Returns the group's first and last position, or <<0, 0>>.
FenceTail(t, b) ==
    LET p == SkipSpace(t, b)
        closeAfter(q) == StartsWithAt(t, SkipSpace(t, q + 1), FENCE)
        braceEnds == {q \in (p + 1)..Len(t) : t[q] = "}" /\ closeAfter(q)}
        mathEnds == {r \in (p + 7)..Len(t) :
                        StartsWithAt(t, r, FENCE) /\ closeAfter(r + 2)}
        least(S) == CHOOSE x \in S : \A y \in S : x <= y
    IN  IF p <= Len(t) /\ t[p] = "{" /\ braceEnds # {}
        THEN <<p, least(braceEnds)>>
        ELSE IF StartsWithAt(t, p, FENCE \o W_math) /\ mathEnds # {}
        THEN <<p, least(mathEnds) + 2>>
        ELSE <<0, 0>>

\* The pattern tried at position i: ``` then (?:json)? (greedy: with the tag
\* first, then without it) then the tail.
FenceMatchAt(t, i) ==
    IF ~StartsWithAt(t, i, FENCE) THEN <<0, 0>>
    ELSE LET a == i + 3
             tagged == IF StartsWithAt(t, a, W_json)
                       THEN FenceTail(t, a + 4) ELSE <<0, 0>>
         IN  IF tagged # <<0, 0>> THEN tagged ELSE FenceTail(t, a)

\* re.search(r'```(?:json)?\s*(\{.*?\}|```math.*?```)\s*```', text, re.DOTALL):
\* the match at the leftmost position that has one; [found, group].
FenceSearch(t) ==
    LET starts == {i \in 1..Len(t) : FenceMatchAt(t, i) # <<0, 0>>}
    IN  IF starts = {} THEN [found |-> FALSE, group |-> <<>>]
        ELSE LET i == CHOOSE x \in starts : \A y \in starts : x <= y
                 g == FenceMatchAt(t, i)
             IN  [found |-> TRUE, group |-> SubSeq(t, g[1], g[2])]

\* WorkingText without lines 41-43: the fence is never looked for.
WorkingText_NoFence(text) == text

\* lines 41-43: the working text
WorkingText(text) ==
    LET match == FenceSearch(text)
    IN  IF match.found THEN match.group ELSE text

\* StartPos with line 49-50 dropped: only a bracket starts a payload.
StartPos_BracketOnly(text) == Find(text, "[")

\* lines 45-52
StartPos(text) ==
    LET start_brace == Find(text, "{")
        start_bracket == Find(text, "[")
    IN  IF start_brace # NotFound
           /\ (start_bracket = NotFound \/ start_brace < start_bracket)
        THEN start_brace
        ELSE IF start_bracket # NotFound THEN start_bracket
        ELSE NotFound

\* lines 57-59
EndPos(text) == Max(RFind(text, "}"), RFind(text, "]"))

\* lines 45-64 on the working text: [ok |-> TRUE, payload] or
\* [ok |-> FALSE, err] where err tells the two ValueErrors apart.
ExtractFrom(text) ==
    IF StartPos(text) = NotFound
    THEN [ok |-> FALSE, err |-> "NoStart", payload |-> <<>>]
    ELSE IF EndPos(text) = NotFound
    THEN [ok |-> FALSE, err |-> "NoEnd", payload |-> <<>>]
    ELSE [ok |-> TRUE, err |-> "", payload |-> Slice(text, StartPos(text), EndPos(text) + 1)]

\* The whole function (the working text is computed once).
extract_and_repair_json(raw) ==
    CHOOSE result \in {ExtractFrom(text) : text \in {WorkingText(raw)}} : TRUE

-----------------------------------------------------------------------------
(* JSON values *)

Str(s) == [k |-> "str", v |-> s]
Num(n) == [k |-> "num", v |-> n]
Float(lit) == [k |-> "float", v |-> lit]
Bool(b) == [k |-> "bool", v |-> b]
Null == [k |-> "null", v |-> 0]
List(items) == [k |-> "list", v |-> items]
Dict(pairs) == [k |-> "dict", v |-> pairs]

IsStr(x) == x.k = "str"
IsList(x) == x.k = "list"
IsDict(x) == x.k = "dict"

\* key in d
HasKey(d, key) == \E i \in 1..Len(d.v) : d.v[i][1] = key

\* d[key], for a key of d
Get(d, key) == d.v[CHOOSE i \in 1..Len(d.v) : d.v[i][1] = key][2]

\* d[key] = val: in place for a key of d, appended for a new key
Put(d, key, val) ==
    IF HasKey(d, key)
    THEN Dict([i \in 1..Len(d.v) |->
                 IF d.v[i][1] = key THEN <<key, val>> ELSE d.v[i]])
    ELSE Dict(Append(d.v, <<key, val>>))

\* del d[key]
Del(d, key) == Dict(SelectSeq(d.v, LAMBDA kv : kv[1] # key))

-----------------------------------------------------------------------------
(* json.loads, as called at app.py 427 and main.py 85, 90, 97.  Texts are   *)
(* over an alphabet without the backslash, so a string literal runs to the  *)
(* next double quote and has no escapes.                                    *)

\* The decoder's WHITESPACE: ' \t\n\r'
IsJsonSpace(c) == c \in {" ", "\t", "\n", "\r"}

SkipJsonSpace(t, i) ==
    CHOOSE j \in i..(Len(t) + 1) :
        /\ \A m \in i..(j - 1) : IsJsonSpace(t[m])
        /\ (j = Len(t) + 1 \/ ~IsJsonSpace(t[j]))

Digits == <<"0", "1", "2", "3", "4", "5", "6", "7", "8", "9">>
IsDigit(c) == \E d \in 1..10 : Digits[d] = c
DigitVal(c) == (CHOOSE d \in 1..10 : Digits[d] = c) - 1
IsDigitAt(t, i) == i >= 1 /\ i <= Len(t) /\ IsDigit(t[i])
CharAt(t, i) == IF i >= 1 /\ i <= Len(t) THEN t[i] ELSE "EOF"

\* The last position of the run of digits that starts at i (a digit).
DigitRunEnd(t, i) ==
    CHOOSE j \in i..Len(t) :
        /\ \A m \in i..j : IsDigit(t[m])
        /\ ~IsDigitAt(t, j + 1)

RECURSIVE IntOf(_)
IntOf(ds) ==
    IF ds = <<>> THEN 0
    ELSE 10 * IntOf(SubSeq(ds, 1, Len(ds) - 1)) + DigitVal(ds[Len(ds)])

ParseFail == [ok |-> FALSE, val |-> Null, nxt |-> 0]
Parsed(val, nxt) == [ok |-> TRUE, val |-> val, nxt |-> nxt]

\* NUMBER_RE = (-?(?:0|[1-9]\d*))(\.\d+)?([eE][-+]?\d+)? matched at i
match_number(t, i) ==
    LET j == IF CharAt(t, i) = "-" THEN i + 1 ELSE i
    IN  IF ~IsDigitAt(t, j) THEN ParseFail
        ELSE
        LET intEnd == IF t[j] = "0" THEN j ELSE DigitRunEnd(t, j)
            fracEnd == IF CharAt(t, intEnd + 1) = "." /\ IsDigitAt(t, intEnd + 2)
                       THEN DigitRunEnd(t, intEnd + 2) ELSE intEnd
            expAt == IF CharAt(t, fracEnd + 2) \in {"+", "-"}
                     THEN fracEnd + 3 ELSE fracEnd + 2
            expEnd == IF CharAt(t, fracEnd + 1) \in {"e", "E"} /\ IsDigitAt(t, expAt)
                      THEN DigitRunEnd(t, expAt) ELSE fracEnd
        IN  IF expEnd = intEnd
            THEN Parsed(Num((IF j = i THEN 1 ELSE -1) * IntOf(SubSeq(t, j, intEnd))),
                        intEnd + 1)
            ELSE Parsed(Float(SubSeq(t, i, expEnd)), expEnd + 1)

\* py_scanstring from the position after the opening quote: strict, so a
\* control character inside the literal is an error.
scanstring(t, b) ==
    LET stops == {q \in b..Len(t) : t[q] = QUOTE \/ t[q] \in {"\t", "\n", "\r", "\f"}}
    IN  IF stops = {} THEN ParseFail
        ELSE LET q == CHOOSE x \in stops : \A y \in stops : x <= y
             IN  IF t[q] # QUOTE THEN ParseFail
                 ELSE Parsed(Str(SubSeq(t, b, q - 1)), q + 1)

Literals == << <<"null", Null>>, <<"true", Bool(TRUE)>>, <<"false", Bool(FALSE)>>,
               <<"NaN", Float(<<"N", "a", "N">>)>>,
               <<"Infinity", Float(<<"I", "n", "f">>)>>,
               <<"-Infinity", Float(<<"-", "I", "n", "f">>)>> >>
LiteralText(name) ==
    CASE name = "null" -> <<"n", "u", "l", "l">>
      [] name = "true" -> <<"t", "r", "u", "e">>
      [] name = "false" -> <<"f", "a", "l", "s", "e">>
      [] name = "NaN" -> <<"N", "a", "N">>
      [] name = "Infinity" -> <<"I", "n", "f", "i", "n", "i", "t", "y">>
      [] name = "-Infinity" -> <<"-", "I", "n", "f", "i", "n", "i", "t", "y">>

RECURSIVE scan_once(_, _), JSONObject(_, _, _), JSONArray(_, _, _)

\* scanner.py_make_scanner._scan_once at position i
scan_once(t, i) ==
    LET c == CharAt(t, i)
        lits == {n \in 1..Len(Literals) : StartsWithAt(t, i, LiteralText(Literals[n][1]))}
    IN  IF c = QUOTE THEN scanstring(t, i + 1)
        ELSE IF c = "{" THEN
            LET e == SkipJsonSpace(t, i + 1)
            IN  IF CharAt(t, e) = "}" THEN Parsed(Dict(<<>>), e + 1)
                ELSE IF CharAt(t, e) # QUOTE THEN ParseFail
                ELSE JSONObject(t, e + 1, Dict(<<>>))
        ELSE IF c = "[" THEN
            LET e == SkipJsonSpace(t, i + 1)
            IN  IF CharAt(t, e) = "]" THEN Parsed(List(<<>>), e + 1)
                ELSE JSONArray(t, e, <<>>)
        ELSE IF lits # {} /\ match_number(t, i) = ParseFail THEN
            LET n == CHOOSE x \in lits : TRUE
            IN  Parsed(Literals[n][2], i + Len(LiteralText(Literals[n][1])))
        ELSE match_number(t, i)

\* decoder.JSONObject's loop, at the position after a key's opening quote,
\* with the pairs read so far
JSONObject(t, b, acc) ==
    LET key == scanstring(t, b)
    IN  IF ~key.ok THEN ParseFail
        ELSE
        LET colon == SkipJsonSpace(t, key.nxt)
        IN  IF CharAt(t, colon) # ":" THEN ParseFail
            ELSE
            LET value == scan_once(t, SkipJsonSpace(t, colon + 1))
            IN  IF ~value.ok THEN ParseFail
                ELSE
                LET acc2 == Put(acc, key.val.v, value.val)
                    e == SkipJsonSpace(t, value.nxt)
                    nextq == SkipJsonSpace(t, e + 1)
                IN  IF CharAt(t, e) = "}" THEN Parsed(acc2, e + 1)
                    ELSE IF CharAt(t, e) # "," THEN ParseFail
                    ELSE IF CharAt(t, nextq) # QUOTE THEN ParseFail
                    ELSE JSONObject(t, nextq + 1, acc2)

\* decoder.JSONArray's loop, at the position of the next value, with the
\* values read so far
JSONArray(t, b, acc) ==
    LET value == scan_once(t, b)
    IN  IF ~value.ok THEN ParseFail
        ELSE
        LET acc2 == Append(acc, value.val)
            e == SkipJsonSpace(t, value.nxt)
        IN  IF CharAt(t, e) = "]" THEN Parsed(List(acc2), e + 1)
            ELSE IF CharAt(t, e) # "," THEN ParseFail
            ELSE JSONArray(t, SkipJsonSpace(t, e + 1), acc2)

\* json.loads(s) = JSONDecoder.decode: whitespace, one value, whitespace, end.
\* [ok |-> TRUE, val] or [ok |-> FALSE] for a JSONDecodeError.
json_loads(t) ==
    LET r == scan_once(t, SkipJsonSpace(t, 1))
    IN  IF r.ok /\ SkipJsonSpace(t, r.nxt) = Len(t) + 1
        THEN [ok |-> TRUE, val |-> r.val]
        ELSE [ok |-> FALSE, val |-> Null]

-----------------------------------------------------------------------------
(* The words of the source, as texts *)

W_type == <<"t", "y", "p", "e">>
W_options == <<"o", "p", "t", "i", "o", "n", "s">>
W_answer == <<"a", "n", "s", "w", "e", "r">>
W_questions == <<"q", "u", "e", "s", "t", "i", "o", "n", "s">>
W_text == <<"t", "e", "x", "t">>
W_correct == <<"c", "o", "r", "r", "e", "c", "t">>
W_isCorrect == <<"i", "s", "C", "o", "r", "r", "e", "c", "t">>
W_MCQ == <<"M", "C", "Q">>
W_TrueFalse == <<"T", "r", "u", "e", "/", "F", "a", "l", "s", "e">>
W_FillInBlank == <<"F", "i", "l", "l", " ", "i", "n", " ", "B", "l", "a", "n", "k">>
W_ShortAnswer == <<"S", "h", "o", "r", "t", " ", "A", "n", "s", "w", "e", "r">>
W_True == <<"T", "r", "u", "e">>
W_False == <<"F", "a", "l", "s", "e">>
W_None == <<"N", "o", "n", "e">>
W_mcq == <<"m", "c", "q">>
W_multiple == <<"m", "u", "l", "t", "i", "p", "l", "e">>
W_true == <<"t", "r", "u", "e">>
W_false == <<"f", "a", "l", "s", "e">>
W_fill == <<"f", "i", "l", "l">>
W_short == <<"s", "h", "o", "r", "t">>
W_subjective == <<"s", "u", "b", "j", "e", "c", "t", "i", "v", "e">>
W_blank == <<"b", "l", "a", "n", "k">>
W_FillUp == <<"F", "i", "l", "l", "U", "p">>
W_Subjective == <<"S", "u", "b", "j", "e", "c", "t", "i", "v", "e">>
W_TrueFalseKey == <<"T", "r", "u", "e", "F", "a", "l", "s", "e">>

Uppercase == <<"A", "B", "C", "D", "E", "F", "G", "H", "I", "J", "K", "L", "M",
               "N", "O", "P", "Q", "R", "S", "T", "U", "V", "W", "X", "Y", "Z">>
Lowercase == <<"a", "b", "c", "d", "e", "f", "g", "h", "i", "j", "k", "l", "m",
               "n", "o", "p", "q", "r", "s", "t", "u", "v", "w", "x", "y", "z">>

\* str.lower()
LowerChar(c) ==
    IF \E i \in 1..26 : Uppercase[i] = c
    THEN Lowercase[CHOOSE i \in 1..26 : Uppercase[i] = c]
    ELSE c
Lower(s) == [i \in 1..Len(s) |-> LowerChar(s[i])]

RECURSIVE IntText(_)
\* str(n) for an int n
IntText(n) ==
    IF n < 0 THEN <<"-">> \o IntText(-n)
    ELSE IF n < 10 THEN <<Digits[n + 1]>>
    ELSE IntText(n \div 10) \o <<Digits[(n % 10) + 1]>>

RECURSIVE PyRepr(_), JoinRepr(_, _)
\* repr(x) of a parsed value; the strings of the model hold no quote and no
\* backslash, so a string's repr is the string in single quotes.  A float is
\* shown by its literal.
PyRepr(x) ==
    CASE x.k = "str" -> <<"'">> \o x.v \o <<"'">>
      [] x.k = "num" -> IntText(x.v)
      [] x.k = "float" -> x.v
      [] x.k = "bool" -> IF x.v THEN W_True ELSE W_False
      [] x.k = "null" -> W_None
      [] x.k = "list" -> <<"[">> \o JoinRepr(x, 1) \o <<"]">>
      [] x.k = "dict" -> <<"{">> \o JoinRepr(x, 1) \o <<"}">>

\* the items of a list or dict from the i-th on, separated by ", "
JoinRepr(x, i) ==
    IF i > Len(x.v) THEN <<>>
    ELSE (IF x.k = "dict"
          THEN PyRepr(Str(x.v[i][1])) \o <<":", " ">> \o PyRepr(x.v[i][2])
          ELSE PyRepr(x.v[i]))
         \o (IF i < Len(x.v) THEN <<",", " ">> ELSE <<>>)
         \o JoinRepr(x, i + 1)

\* str(x)
PyStr(x) == IF x.k = "str" THEN x.v ELSE PyRepr(x)

\* bool(x)
PyBool(x) ==
    CASE x.k = "str" -> x.v # <<>>
      [] x.k = "num" -> x.v # 0
      [] x.k = "float" ->
            \E i \in 1..Len(x.v) :
                /\ x.v[i] \in {"1", "2", "3", "4", "5", "6", "7", "8", "9", "N", "I"}
                /\ \A j \in 1..i : x.v[j] \notin {"e", "E"}
      [] x.k = "bool" -> x.v
      [] x.k = "null" -> FALSE
      [] x.k = "list" -> x.v # <<>>
      [] x.k = "dict" -> x.v # <<>>

-----------------------------------------------------------------------------
(* The normalizer, app.py 67-110 *)

\* lines 103-110
normalize_question_type(q_type) ==
    IF ~IsStr(q_type) THEN Str(W_MCQ)
    ELSE LET lowered == Lower(q_type.v)
         IN  IF Contains(lowered, W_mcq) \/ Contains(lowered, W_multiple)
             THEN Str(W_MCQ)
             ELSE IF Contains(lowered, W_true) \/ Contains(lowered, W_false)
             THEN Str(W_TrueFalse)
             ELSE IF Contains(lowered, W_fill) THEN Str(W_FillInBlank)
             ELSE IF Contains(lowered, W_short) \/ Contains(lowered, W_subjective)
             THEN Str(W_ShortAnswer)
             ELSE Str(lowered)

\* lines 80-82
NormalizeType(question) ==
    IF HasKey(question, W_type)
    THEN Put(question, W_type, normalize_question_type(Get(question, W_type)))
    ELSE question

\* SynthesizeOptions comparing the answer to 'true' without lower().
SynthesizeOptions_CaseSensitive(question) ==
    IF HasKey(question, W_type) /\ Get(question, W_type) = Str(W_TrueFalse)
       /\ ~HasKey(question, W_options)
    THEN LET answer == IF HasKey(question, W_answer)
                       THEN Get(question, W_answer) ELSE Str(<<>>)
             is_true == PyStr(answer) = W_true
         IN  Put(question, W_options,
                 List(<< Dict(<< <<W_text, Str(W_True)>>,
                                 <<W_isCorrect, Bool(is_true)>> >>),
                         Dict(<< <<W_text, Str(W_False)>>,
                                 <<W_isCorrect, Bool(~is_true)>> >>) >>))
    ELSE question

\* lines 84-91
SynthesizeOptions(question) ==
    IF HasKey(question, W_type) /\ Get(question, W_type) = Str(W_TrueFalse)
       /\ ~HasKey(question, W_options)
    THEN LET answer == IF HasKey(question, W_answer)
                       THEN Get(question, W_answer) ELSE Str(<<>>)
             is_true == Lower(PyStr(answer)) = W_true
         IN  Put(question, W_options,
                 List(<< Dict(<< <<W_text, Str(W_True)>>,
                                 <<W_isCorrect, Bool(is_true)>> >>),
                         Dict(<< <<W_text, Str(W_False)>>,
                                 <<W_isCorrect, Bool(~is_true)>> >>) >>))
    ELSE question

\* RenameCorrect without line 98: the old key stays.
RenameCorrect_KeepsOld(opt) ==
    IF IsDict(opt) /\ HasKey(opt, W_correct) /\ ~HasKey(opt, W_isCorrect)
    THEN Put(opt, W_isCorrect, Bool(PyBool(Get(opt, W_correct))))
    ELSE opt

\* lines 95-98, one option
RenameCorrect(opt) ==
    IF IsDict(opt) /\ HasKey(opt, W_correct) /\ ~HasKey(opt, W_isCorrect)
    THEN Del(Put(opt, W_isCorrect, Bool(PyBool(Get(opt, W_correct)))), W_correct)
    ELSE opt

\* lines 93-98
FixOptions(question) ==
    IF HasKey(question, W_options) /\ IsList(Get(question, W_options))
    THEN LET opts == Get(question, W_options).v
         IN  Put(question, W_options,
                 List([i \in 1..Len(opts) |-> RenameCorrect(opts[i])]))
    ELSE question

\* transform_question synthesizing the two options of a True/False question
\* whether or not it has options (line 85 without its second condition).
transform_question_Resynthesize(question) ==
    IF ~IsDict(question) THEN question
    ELSE LET q == NormalizeType(question)
         IN  FixOptions(SynthesizeOptions(
                 IF HasKey(q, W_type) /\ Get(q, W_type) = Str(W_TrueFalse)
                 THEN Del(q, W_options) ELSE q))

\* lines 76-100
transform_question(question) ==
    IF ~IsDict(question) THEN question
    ELSE FixOptions(SynthesizeOptions(NormalizeType(question)))

\* lines 67-73
transform_ai_quiz_response(response) ==
    IF ~IsDict(response) THEN response
    ELSE IF HasKey(response, W_questions) /\ IsList(Get(response, W_questions))
    THEN LET qs == Get(response, W_questions).v
         IN  Put(response, W_questions,
                 List([i \in 1..Len(qs) |-> transform_question(qs[i])]))
    ELSE response

-----------------------------------------------------------------------------
(* The distributors: build_quiz_prompt (app.py 304-315) and                *)
(* _distribute_questions (main.py 55-81).  A CategoryCount is [type, count]. *)

RECURSIVE Dedup(_)
\* list(dict.fromkeys(xs)): first occurrences, in order
Dedup(xs) ==
    IF xs = <<>> THEN <<>>
    ELSE LET front == Dedup(SubSeq(xs, 1, Len(xs) - 1))
             last == xs[Len(xs)]
         IN  IF \E i \in 1..Len(front) : front[i] = last
             THEN front ELSE Append(front, last)

\* Apportion with the comparison of line 313 / 78 off by one.
Apportion_OffByOne(types, total) ==
    LET base == total \div Len(types)
        remainder == total % Len(types)
    IN  [i \in 1..Len(types) |->
            [type |-> types[i], count |-> base + (IF i - 1 <= remainder THEN 1 ELSE 0)]]

\* app.py 310-315 and main.py 72-81: base + 1 for the first `remainder` types
Apportion(types, total) ==
    LET base == total \div Len(types)
        remainder == total % Len(types)
    IN  [i \in 1..Len(types) |->
            [type |-> types[i], count |-> base + (IF i - 1 < remainder THEN 1 ELSE 0)]]

\* app.py 304-307
FinalTypes(question_types) ==
    LET normalized == [i \in 1..Len(question_types) |->
                          normalize_question_type(question_types[i]).v]
        final_types == Dedup(normalized)
    IN  IF final_types = <<>> THEN <<W_MCQ>> ELSE final_types

\* app.py 304-315: the type_distribution of build_quiz_prompt, for a list
\* question_types of JSON values
build_quiz_prompt(question_types, question_count) ==
    Apportion(FinalTypes(question_types), question_count)

\* main.py 60-70, one label
MainNormalizeType(type) ==
    LET lowered == Lower(type)
    IN  IF Contains(lowered, W_fill) \/ Contains(lowered, W_blank) THEN W_FillUp
        ELSE IF Contains(lowered, W_subjective) \/ Contains(lowered, W_short)
        THEN W_Subjective
        ELSE IF Contains(lowered, W_mcq) THEN W_MCQ
        ELSE IF Contains(lowered, W_true) \/ Contains(lowered, W_false)
        THEN W_TrueFalseKey
        ELSE type

\* main.py 55-81, for a JSON value question_types whose items are strings
distribute_questions(question_types, total_question_count) ==
    IF ~IsList(question_types) \/ Len(question_types.v) = 0
    THEN << [type |-> W_MCQ, count |-> total_question_count] >>
    ELSE Apportion([i \in 1..Len(question_types.v) |->
                       MainNormalizeType(question_types.v[i].v)],
                   total_question_count)

-----------------------------------------------------------------------------
(* extract_json_from_response, main.py 83-100 *)

W_jsonFenceOpen == FENCE \o W_json \o <<"\n">>
W_jsonFenceClose == <<"\n">> \o FENCE

\* re.search(r'```json\n([\s\S]*?)\n```', s): the leftmost opening that has a
\* closing after it, and the first such closing (lazy); [found, group].
JsonFenceSearch(t) ==
    LET closes(i) == {e \in (i + 8)..Len(t) : StartsWithAt(t, e, W_jsonFenceClose)}
        starts == {i \in 1..Len(t) :
                      StartsWithAt(t, i, W_jsonFenceOpen) /\ closes(i) # {}}
    IN  IF starts = {} THEN [found |-> FALSE, group |-> <<>>]
        ELSE LET i == CHOOSE x \in starts : \A y \in starts : x <= y
                 e == CHOOSE x \in closes(i) : \A y \in closes(i) : x <= y
             IN  [found |-> TRUE, group |-> SubSeq(t, i + 8, e - 1)]

\* json.loads(x), None for a JSONDecodeError (main.py 89-92, 96-99)
LoadsOrNone(t) == IF json_loads(t).ok THEN json_loads(t).val ELSE Null

\* main.py 83-100; Python's None is Null (what json.loads('null') returns)
extract_json_from_response(s) ==
    IF json_loads(s).ok THEN json_loads(s).val
    ELSE LET match == JsonFenceSearch(s)
             first_brace == Find(s, "{")
             last_brace == RFind(s, "}")
         IN  IF match.found THEN LoadsOrNone(match.group)
             ELSE IF first_brace # NotFound /\ last_brace # NotFound
             THEN LoadsOrNone(Slice(s, first_brace, last_brace + 1))
             ELSE Null

-----------------------------------------------------------------------------
(* Generator outputs: the texts response.text ranges over *)

MaxPlain == 4
MaxProse == 1

RECURSIVE Dumps(_), JoinDumps(_, _)
\* The text json.dumps writes for a value (", " and ": " separators); the
\* strings of the model need no escapes.
Dumps(x) ==
    CASE x.k = "str" -> <<QUOTE>> \o x.v \o <<QUOTE>>
      [] x.k = "num" -> IntText(x.v)
      [] x.k = "float" -> x.v
      [] x.k = "bool" -> IF x.v THEN W_true ELSE W_false
      [] x.k = "null" -> <<"n", "u", "l", "l">>
      [] x.k = "list" -> <<"[">> \o JoinDumps(x, 1) \o <<"]">>
      [] x.k = "dict" -> <<"{">> \o JoinDumps(x, 1) \o <<"}">>

JoinDumps(x, i) ==
    IF i > Len(x.v) THEN <<>>
    ELSE (IF x.k = "dict"
          THEN Dumps(Str(x.v[i][1])) \o <<":", " ">> \o Dumps(x.v[i][2])
          ELSE Dumps(x.v[i]))
         \o (IF i < Len(x.v) THEN <<",", " ">> ELSE <<>>)
         \o JoinDumps(x, i + 1)

\* All texts over an alphabet, up to a length.
TextsUpTo(alphabet, n) == UNION {[1..m -> alphabet] : m \in 0..n}

PlainAlphabet == {"{", "}", "[", "]", "x", "1", " ", QUOTE}
PlainTexts == TextsUpTo(PlainAlphabet, MaxPlain)

\* Prose around a fence: any characters, delimiters and single backticks
\* included, but no fence of its own.
ProseAlphabet == {"x", "{", "}", "[", "]", BT}
Prose == {t \in TextsUpTo(ProseAlphabet, MaxProse) : ~Contains(t, FENCE)}

\* JSON objects a fence may wrap; their strings hold delimiters too.
FencedObjects ==
    { Dict(<<>>),
      Dict(<< <<<<"a">>, Num(1)>> >>),
      Dict(<< <<<<"a">>, Str(<<"}">>)>>, <<<<"b">>, Str(<<"[", "{">>)>> >>),
      Dict(<< <<<<"a">>, Dict(<< <<<<"b">>, List(<<Num(1), Str(<<"]">>)>>)>> >>)>> >>),
      Dict(<< <<W_questions, List(<< Dict(<< <<W_type, Str(W_mcq)>> >>) >>)>> >>) }

\* Other things found between fences: arrays, broken JSON, the text the
\* pattern's second alternative matches.
OtherBodies ==
    { <<"[", "1", "]">>,
      <<"[", "{", "}", "]">>,
      <<"{", "x", "}">>,
      FENCE \o W_math \o <<"x">> \o FENCE }

FencedParts ==
    [kind : {"fenced"}, lead : Prose, tag : {<<>>, W_json}, pad : {<<>>, <<"\n">>},
     object : FencedObjects, other : {<<>>}, trail : Prose]
    \cup
    [kind : {"fenced"}, lead : Prose, tag : {<<>>, W_json}, pad : {<<>>, <<"\n">>},
     object : {Null}, other : OtherBodies, trail : Prose]

\* what stands between the fences
Body(p) == IF p.object # Null THEN Dumps(p.object) ELSE p.other

FencedText(p) ==
    p.lead \o FENCE \o p.tag \o p.pad \o Body(p) \o p.pad \o FENCE \o p.trail

PlainParts(t) ==
    [kind |-> "plain", lead |-> t, tag |-> <<>>, pad |-> <<>>,
     object |-> Null, other |-> <<>>, trail |-> <<>>]

-----------------------------------------------------------------------------
(* generate_quiz, app.py 403-432 *)

Pending == [status |-> 0, error |-> "", body |-> Null]
NoPayload == [ok |-> FALSE, err |-> "", payload |-> <<>>]
NoValue == [ok |-> FALSE, val |-> Null]

\* The response of the except branch (line 432) for the exception raised:
\* the extractor's ValueError or the parser's JSONDecodeError.
ErrorResponse(kind) == [status |-> 500, error |-> kind, body |-> Null]

\* lines 427-432 given the extractor's result r and the parser's result j
Respond(r, j) ==
    IF ~r.ok THEN ErrorResponse("NoJsonFound")
    ELSE IF ~j.ok THEN ErrorResponse("InvalidJson")
    ELSE [status |-> 200, error |-> "", body |-> transform_ai_quiz_response(j.val)]

QuizInit ==
    /\ \/ \E t \in PlainTexts : response_text = t /\ parts = PlainParts(t)
       \/ \E p \in FencedParts : response_text = FencedText(p) /\ parts = p
    /\ repaired = NoPayload
    /\ quiz_json = NoValue
    /\ http = Pending

QuizIdle ==
    /\ response_text = <<>>
    /\ parts = PlainParts(<<>>)
    /\ repaired = NoPayload
    /\ quiz_json = NoValue
    /\ http = [status |-> 200, error |-> "", body |-> Null]

\* The handler, the generator having answered response_text: lines 426-432.
GenerateQuiz ==
    /\ http = Pending
    /\ \E r \in {extract_and_repair_json(response_text)} :
       \E j \in {IF r.ok THEN json_loads(r.payload) ELSE NoValue} :
           /\ repaired' = r
           /\ quiz_json' = j
           /\ http' = Respond(r, j)
    /\ UNCHANGED <<response_text, parts>>

\* The handler, the generator call raising (line 420): the except branch.
GenerateQuizCallFails ==
    /\ http = Pending
    /\ http' = ErrorResponse("GeneratorError")
    /\ UNCHANGED <<response_text, parts, repaired, quiz_json>>

-----------------------------------------------------------------------------
(* Parsed values handed to the normalizer *)

MaxOptions == 2

\* a field the record does not have
Absent == [k |-> "absent", v |-> 0]

\* the dict of the present fields among <<key, value>> pairs, in order
Record(fields) == Dict(SelectSeq(fields, LAMBDA kv : kv[2] # Absent))

TypeChoices ==
    { Absent, Str(W_MCQ), Str(W_TrueFalse), Str(W_FillInBlank), Str(W_ShortAnswer),
      Str(<<"M", "u", "l", "t", "i", "p", "l", "e", " ", "C", "h", "o", "i", "c", "e">>),
      Str(<<"t", "r", "u", "e", "_", "f", "a", "l", "s", "e">>),
      Str(<<"F", "A", "L", "S", "E">>),
      Str(<<"E", "s", "s", "a", "y">>),
      Num(1) }

AnswerChoices ==
    { Absent, Str(W_True), Str(W_true), Str(<<"T", "R", "U", "E">>), Str(W_false),
      Str(<<"y", "e", "s">>), Bool(TRUE), Null }

OptionChoices ==
    { Dict(<< <<W_text, Str(W_True)>>, <<W_isCorrect, Bool(TRUE)>> >>),
      Dict(<< <<W_text, Str(W_False)>>, <<W_isCorrect, Bool(FALSE)>> >>),
      Dict(<< <<W_text, Str(<<"x">>)>>, <<W_correct, Bool(TRUE)>> >>),
      Dict(<< <<W_text, Str(<<"x">>)>>, <<W_correct, Num(0)>> >>),
      Dict(<< <<W_correct, Str(<<"n", "o">>)>>, <<W_text, Str(<<"x">>)>> >>),
      Dict(<< <<W_text, Str(<<"x">>)>>, <<W_correct, Bool(FALSE)>>,
              <<W_isCorrect, Bool(TRUE)>> >>),
      Dict(<< <<W_text, Str(<<"x">>)>> >>),
      Str(<<"x">>) }

OptionsChoices ==
    {Absent, Str(<<"x">>)}
    \cup {List(opts) : opts \in UNION {[1..m -> OptionChoices] : m \in 0..MaxOptions}}

QuestionChoices ==
    { Record(<< <<W_type, t>>, <<W_answer, a>>, <<W_options, o>> >>) :
        t \in TypeChoices, a \in AnswerChoices, o \in OptionsChoices }

\* shapes the normalizer passes through, and a response of several questions
OtherResponses ==
    LET q1 == Record(<< <<W_type, Str(W_mcq)>> >>)
        q2 == Record(<< <<W_type, Str(W_true)>>, <<W_answer, Str(W_True)>> >>)
    IN  { List(<<q1>>), Str(W_questions), Null, Dict(<<>>),
          Dict(<< <<W_questions, Str(<<"x">>)>> >>),
          Dict(<< <<W_questions, q1>> >>),
          Dict(<< <<W_questions, List(<<>>)>> >>),
          Dict(<< <<W_questions, List(<<Str(<<"q">>), q1, Num(1)>>)>> >>),
          Dict(<< <<W_text, Str(<<"x">>)>>, <<W_questions, List(<<q1, q2, q1>>)>>,
                  <<W_type, Str(W_mcq)>> >>) }

NormInputs ==
    {Dict(<< <<W_questions, List(<<q>>)>> >>) : q \in QuestionChoices}
    \cup OtherResponses

-----------------------------------------------------------------------------
(* A run of the normalizer: transform_ai_quiz_response applied to a parsed  *)
(* value, and once more to its result.                                     *)

NormInit ==
    /\ ai_response \in NormInputs
    /\ once = Null
    /\ twice = Null
    /\ npc = 0

NormIdle ==
    /\ ai_response = Null
    /\ once = Null
    /\ twice = Null
    /\ npc = 2

\* app.py 428
Normalize ==
    /\ npc = 0
    /\ once' = transform_ai_quiz_response(ai_response)
    /\ npc' = 1
    /\ UNCHANGED <<ai_response, twice>>

\* the same call on the value the first call returned
NormalizeAgain ==
    /\ npc = 1
    /\ twice' = transform_ai_quiz_response(once)
    /\ npc' = 2
    /\ UNCHANGED <<ai_response, once>>

-----------------------------------------------------------------------------
(* A run of the distributors on one request's labels and total *)

MaxLabels == 3
MaxTotal == 10

LabelPool ==
    { W_MCQ, W_mcq, W_TrueFalseKey, W_FillUp,
      <<"M", "u", "l", "t", "i", "p", "l", "e", " ", "C", "h", "o", "i", "c", "e">>,
      <<"E", "s", "s", "a", "y">> }

DistInit ==
    /\ dist_in \in [labels : UNION {[1..m -> LabelPool] : m \in 0..MaxLabels},
                    total : 0..MaxTotal]
    /\ dist_out = [app_done |-> FALSE, app |-> <<>>, main_done |-> FALSE, main |-> <<>>]

DistIdle ==
    /\ dist_in = [labels |-> <<>>, total |-> 0]
    /\ dist_out = [app_done |-> TRUE, app |-> <<>>, main_done |-> TRUE, main |-> <<>>]

\* the question types as the request's JSON carries them
AsStrs(labels) == [i \in 1..Len(labels) |-> Str(labels[i])]

\* app.py 300-315
BuildQuizPrompt ==
    /\ ~dist_out.app_done
    /\ dist_out' = [dist_out EXCEPT
                      !.app_done = TRUE,
                      !.app = build_quiz_prompt(AsStrs(dist_in.labels), dist_in.total)]
    /\ UNCHANGED dist_in

\* main.py 112
DistributeQuestions ==
    /\ ~dist_out.main_done
    /\ dist_out' = [dist_out EXCEPT
                      !.main_done = TRUE,
                      !.main = distribute_questions(List(AsStrs(dist_in.labels)),
                                                    dist_in.total)]
    /\ UNCHANGED dist_in

-----------------------------------------------------------------------------
(* generate, main.py 102-128: one generator call per category *)

MaxCount == 3

\* What the generator may answer with: a quiz, a quiz in a tagged fence with
\* prose, broken JSON, prose alone, JSON that is no mapping.
GenTexts ==
    { Dumps(Dict(<< <<W_questions, List(<<Str(<<"a">>)>>)>> >>)),
      <<"x">> \o W_jsonFenceOpen
          \o Dumps(Dict(<< <<W_questions, List(<<Str(<<"b">>), Str(<<"c">>)>>)>> >>))
          \o W_jsonFenceClose,
      <<"{", "x", "}">>,
      <<"x">>,
      <<"[", "1", "]">>,
      <<"1">> }

ConfigChoices ==
    [questionTypes : { Null, List(<<Str(W_MCQ)>>), List(<<Str(W_MCQ), Str(W_TrueFalseKey)>>),
                       List(<<Str(W_MCQ), Str(W_TrueFalseKey), Str(W_FillUp)>>) },
     questionCount : 0..MaxCount]

\* main.py 83-100 returns None because no strategy produced a value (a text
\* that is the JSON null parses, to None as well)
ExtractFailed(s) ==
    /\ ~json_loads(s).ok
    /\ LET match == JsonFenceSearch(s)
       IN  IF match.found THEN ~json_loads(match.group).ok
           ELSE \/ Find(s, "{") = NotFound
                \/ RFind(s, "}") = NotFound
                \/ ~json_loads(Slice(s, Find(s, "{"), RFind(s, "}") + 1)).ok

\* main.py 123: "extend", "skip", or "raise" for the TypeError of a value
\* that takes no `in` or no string index
Line123(json_response) ==
    LET x == json_response
    IN  IF ~PyBool(x) THEN "skip"
        ELSE CASE x.k = "dict" ->
                    IF HasKey(x, W_questions) /\ IsList(Get(x, W_questions))
                    THEN "extend" ELSE "skip"
               [] x.k = "list" ->
                    IF \E i \in 1..Len(x.v) : x.v[i] = Str(W_questions)
                    THEN "raise" ELSE "skip"
               [] x.k = "str" ->
                    IF Contains(x.v, W_questions) THEN "raise" ELSE "skip"
               [] OTHER -> "raise"

GenInit ==
    /\ gpc = "start"
    /\ config \in ConfigChoices
    /\ type_distribution = <<>>
    /\ idx = 0
    /\ all_questions = <<>>
    /\ calls = <<>>
    /\ reply = Pending

GenIdle ==
    /\ gpc = "done"
    /\ config = [questionTypes |-> Null, questionCount |-> 0]
    /\ type_distribution = <<>>
    /\ idx = 0
    /\ all_questions = <<>>
    /\ calls = <<>>
    /\ reply = [status |-> 200, error |-> "", body |-> Null]

\* lines 111-112
GenDistribute ==
    /\ gpc = "start"
    /\ type_distribution' = distribute_questions(config.questionTypes, config.questionCount)
    /\ idx' = 1
    /\ gpc' = "loop"
    /\ UNCHANGED <<config, all_questions, calls, reply>>

\* lines 114-115
GenSkip ==
    /\ gpc = "loop"
    /\ idx <= Len(type_distribution)
    /\ type_distribution[idx].count <= 0
    /\ idx' = idx + 1
    /\ UNCHANGED <<gpc, config, type_distribution, all_questions, calls, reply>>

\* GenCall with line 124 putting the batch in front of the questions
\* gathered so far instead of extending them.
GenCall_Prepend ==
    /\ gpc = "loop"
    /\ idx <= Len(type_distribution)
    /\ type_distribution[idx].count > 0
    /\ \E text \in GenTexts :
       \E json_response \in {extract_json_from_response(text)} :
       \E what \in {Line123(json_response)} :
            /\ calls' = Append(calls, [type |-> type_distribution[idx].type,
                                       count |-> type_distribution[idx].count,
                                       text |-> text,
                                       failed |-> ExtractFailed(text)])
            /\ IF what = "raise"
               THEN /\ reply' = ErrorResponse("TypeError")
                    /\ gpc' = "done"
                    /\ UNCHANGED <<idx, all_questions>>
               ELSE /\ all_questions' =
                          IF what = "extend"
                          THEN Get(json_response, W_questions).v \o all_questions
                          ELSE all_questions
                    /\ idx' = idx + 1
                    /\ UNCHANGED <<gpc, reply>>
    /\ UNCHANGED <<config, type_distribution>>

\* lines 117-124: the generator answers `text` for the category
GenCall ==
    /\ gpc = "loop"
    /\ idx <= Len(type_distribution)
    /\ type_distribution[idx].count > 0
    /\ \E text \in GenTexts :
       \E json_response \in {extract_json_from_response(text)} :
       \E what \in {Line123(json_response)} :
            /\ calls' = Append(calls, [type |-> type_distribution[idx].type,
                                       count |-> type_distribution[idx].count,
                                       text |-> text,
                                       failed |-> ExtractFailed(text)])
            /\ IF what = "raise"
               THEN /\ reply' = ErrorResponse("TypeError")
                    /\ gpc' = "done"
                    /\ UNCHANGED <<idx, all_questions>>
               ELSE /\ all_questions' =
                          IF what = "extend"
                          THEN all_questions \o Get(json_response, W_questions).v
                          ELSE all_questions
                    /\ idx' = idx + 1
                    /\ UNCHANGED <<gpc, reply>>
    /\ UNCHANGED <<config, type_distribution>>

\* line 121 raising: the except branch, lines 127-128
GenCallFails ==
    /\ gpc = "loop"
    /\ idx <= Len(type_distribution)
    /\ type_distribution[idx].count > 0
    /\ reply' = ErrorResponse("GeneratorError")
    /\ gpc' = "done"
    /\ UNCHANGED <<config, type_distribution, idx, all_questions, calls>>

\* line 126
GenRespond ==
    /\ gpc = "loop"
    /\ idx > Len(type_distribution)
    /\ reply' = [status |-> 200, error |-> "",
                 body |-> Dict(<< <<W_questions, List(all_questions)>> >>)]
    /\ gpc' = "done"
    /\ UNCHANGED <<config, type_distribution, idx, all_questions, calls>>

-----------------------------------------------------------------------------
(* Specifications *)

\* generate_quiz on every generator text
Init == QuizInit /\ NormIdle /\ DistIdle /\ GenIdle
Next ==
    \/ GenerateQuiz /\ UNCHANGED <<nvars, dvars, gvars>>
    \/ GenerateQuizCallFails /\ UNCHANGED <<nvars, dvars, gvars>>
Spec == Init /\ [][Next]_vars

\* the normalizer on every parsed value
InitNorm == QuizIdle /\ NormInit /\ DistIdle /\ GenIdle
NextNorm ==
    \/ Normalize /\ UNCHANGED <<qvars, dvars, gvars>>
    \/ NormalizeAgain /\ UNCHANGED <<qvars, dvars, gvars>>
SpecNorm == InitNorm /\ [][NextNorm]_vars

\* the two distributors on every label sequence and total
InitDist == QuizIdle /\ NormIdle /\ DistInit /\ GenIdle
NextDist ==
    \/ BuildQuizPrompt /\ UNCHANGED <<qvars, nvars, gvars>>
    \/ DistributeQuestions /\ UNCHANGED <<qvars, nvars, gvars>>
SpecDist == InitDist /\ [][NextDist]_vars

\* the two endpoints, each serving one request
QuizInitGen ==
    /\ response_text \in GenTexts
    /\ parts = PlainParts(response_text)
    /\ repaired = NoPayload
    /\ quiz_json = NoValue
    /\ http = Pending
InitGen == QuizInitGen /\ NormIdle /\ DistIdle /\ GenInit
NextGen ==
    \/ GenerateQuiz /\ UNCHANGED <<nvars, dvars, gvars>>
    \/ GenerateQuizCallFails /\ UNCHANGED <<nvars, dvars, gvars>>
    \/ GenDistribute /\ UNCHANGED <<qvars, nvars, dvars>>
    \/ GenSkip /\ UNCHANGED <<qvars, nvars, dvars>>
    \/ GenCall /\ UNCHANGED <<qvars, nvars, dvars>>
    \/ GenCallFails /\ UNCHANGED <<qvars, nvars, dvars>>
    \/ GenRespond /\ UNCHANGED <<qvars, nvars, dvars>>
SpecGen == InitGen /\ [][NextGen]_vars

-----------------------------------------------------------------------------
(* Claims about the extractor and the parser (Spec) *)

\* generate_quiz has run the pipeline on response_text
QuizDone == http # Pending /\ http.error # "GeneratorError"

HasOpening(t) == \E i \in 1..Len(t) : t[i] \in {"{", "["}
HasClosing(t) == \E i \in 1..Len(t) : t[i] \in {"}", "]"}
NoDelimiters(t) == ~HasOpening(t) /\ ~HasClosing(t)
\* a '{' with a '}' somewhere after it
BraceThenClose(t) == \E i, j \in 1..Len(t) : i < j /\ t[i] = "{" /\ t[j] = "}"

\* C1: for a raw text made of leading prose, one fence (tagged json or not)
\* wrapping a JSON object, and trailing prose, the extracted payload is the
\* object's text and nothing else, and parsing it gives the object.
C1_FencedObjectRecovered ==
    (QuizDone /\ parts.kind = "fenced" /\ parts.object # Null) =>
        /\ repaired.ok
        /\ repaired.payload = Dumps(parts.object)
        /\ quiz_json = [ok |-> TRUE, val |-> parts.object]

\* C1's case: a fenced object with a '{' in the prose before it and a '}' or
\* ']' in the prose after it, recovered.
C1_Witness ==
    /\ QuizDone /\ parts.kind = "fenced" /\ parts.object # Null
    /\ parts.lead = <<"{">> /\ HasClosing(parts.trail)
    /\ Len(parts.object.v) = 2
    /\ quiz_json.ok /\ quiz_json.val = parts.object

\* C2: whenever the extractor returns, the payload is non-empty, starts with
\* '{' or '[' and ends with '}' or ']'; it fails only when the working text
\* has no opening or no closing delimiter.
C2_PayloadDelimited ==
    QuizDone =>
        /\ repaired.ok =>
              /\ repaired.payload # <<>>
              /\ repaired.payload[1] \in {"{", "["}
              /\ repaired.payload[Len(repaired.payload)] \in {"}", "]"}
        /\ ~repaired.ok =>
              \/ ~HasOpening(WorkingText(response_text))
              \/ ~HasClosing(WorkingText(response_text))

\* the text from the first '{' to the last '}' of t exists and does not parse
BraceSpanUnparseable(t) ==
    /\ Find(t, "{") # NotFound
    /\ RFind(t, "}") > Find(t, "{")
    /\ ~json_loads(Slice(t, Find(t, "{"), RFind(t, "}") + 1)).ok

\* C3 as stated: a text with no delimiter fails with NoJsonFound before any
\* parse; a text with a '{', unparseable content and a later '}' fails with
\* InvalidJson.
C3_AsStated ==
    QuizDone =>
        /\ NoDelimiters(response_text) =>
              http.error = "NoJsonFound" /\ ~repaired.ok /\ quiz_json = NoValue
        /\ BraceSpanUnparseable(response_text) => http.error = "InvalidJson"

\* C3 amended: a text with no delimiter fails with NoJsonFound before any
\* parse; when the working text (the first fenced object if the fence
\* pattern matches, else the raw text) has a '{' and a later '}', the
\* request never fails with NoJsonFound, and it fails with InvalidJson
\* exactly when the extracted payload does not parse (else it succeeds).
C3_FailureKinds ==
    QuizDone =>
        /\ NoDelimiters(response_text) =>
              http.error = "NoJsonFound" /\ ~repaired.ok /\ quiz_json = NoValue
        /\ BraceThenClose(WorkingText(response_text)) =>
              /\ http.error # "NoJsonFound"
              /\ repaired.ok
              /\ http.error = "InvalidJson" <=> ~json_loads(repaired.payload).ok
              /\ http.status = 200 <=> json_loads(repaired.payload).ok

\* C3's case: a text with a '{', broken content and a '}' answered with
\* InvalidJson.
C3_Witness ==
    /\ QuizDone
    /\ parts.kind = "plain"
    /\ BraceSpanUnparseable(response_text)
    /\ http.status = 500 /\ http.error = "InvalidJson"

-----------------------------------------------------------------------------
(* Claims about the endpoints (SpecGen) *)

\* generate has answered
GenDone == gpc = "done" /\ reply # Pending

\* C4: extraction and parsing are all-or-nothing per request: when the
\* extraction or the parsing of any generator output of a request failed,
\* the caller gets status 500 and no questions, from generate_quiz and from
\* generate alike.
C4_AllOrNothing ==
    /\ (QuizDone /\ (~repaired.ok \/ ~quiz_json.ok)) =>
          http.status = 500 /\ http.body = Null
    /\ (GenDone /\ \E n \in 1..Len(calls) : calls[n].failed) =>
          reply.status = 500 /\ reply.body = Null

-----------------------------------------------------------------------------
(* Claims about the distributors (SpecDist) *)

RECURSIVE SumCounts(_)
SumCounts(dist) ==
    IF dist = <<>> THEN 0
    ELSE dist[Len(dist)].count + SumCounts(SubSeq(dist, 1, Len(dist) - 1))

\* dist is the balanced partition of total over its n >= 1 entries
Balanced(dist, total) ==
    LET n == Len(dist)
    IN  /\ n >= 1
        /\ \A i \in 1..n :
              dist[i].count = (total \div n) + (IF i <= total % n THEN 1 ELSE 0)
        /\ SumCounts(dist) = total
        /\ \A i, j \in 1..n : dist[i].count - dist[j].count <= 1

\* C5: the counts either distributor returns are the balanced partition of
\* the total over the output labels: total div n + 1 for the first
\* total mod n labels, total div n for the rest; they sum to the total and
\* differ by at most 1.
C5_BalancedPartition ==
    /\ dist_out.app_done => Balanced(dist_out.app, dist_in.total)
    /\ dist_out.main_done => Balanced(dist_out.main, dist_in.total)

\* C5's case: three distinct labels and total 10 give 4, 3, 3 in input
\* order, from both distributors.
C5_Witness ==
    /\ dist_out.app_done /\ dist_out.main_done
    /\ dist_in = [labels |-> <<W_MCQ, W_TrueFalseKey, W_FillUp>>, total |-> 10]
    /\ [i \in 1..3 |-> dist_out.app[i].count] = <<4, 3, 3>>
    /\ [i \in 1..3 |-> dist_out.main[i].count] = <<4, 3, 3>>
    /\ [i \in 1..3 |-> dist_out.main[i].type] = dist_in.labels

\* the labels of a distribution, in order
LabelsOf(dist) == [i \in 1..Len(dist) |-> dist[i].type]

\* the input labels through the Normalizer's table, deduplicated in order of
\* first occurrence, or MCQ alone when nothing is left
ExpectedLabels(labels) ==
    LET normalized == [i \in 1..Len(labels) |-> normalize_question_type(Str(labels[i])).v]
        firsts == SelectSeq([i \in 1..Len(labels) |-> <<i, normalized[i]>>],
                            LAMBDA p : \A j \in 1..(p[1] - 1) : normalized[j] # p[2])
    IN  IF labels = <<>> THEN <<W_MCQ>>
        ELSE [i \in 1..Len(firsts) |-> firsts[i][2]]

\* C6: the labels either distributor assigns counts to are the input labels
\* normalized as the Normalizer normalizes types and deduplicated in order
\* of first occurrence (MCQ alone for no labels), so no label comes twice.
C6_NormalizedDeduplicated ==
    /\ dist_out.app_done => LabelsOf(dist_out.app) = ExpectedLabels(dist_in.labels)
    /\ dist_out.main_done => LabelsOf(dist_out.main) = ExpectedLabels(dist_in.labels)

-----------------------------------------------------------------------------
(* Claims about the normalizer (SpecNorm) *)

\* the questions sequence of a response, empty when it has none
Questions(response) ==
    IF IsDict(response) /\ HasKey(response, W_questions)
       /\ IsList(Get(response, W_questions))
    THEN Get(response, W_questions).v
    ELSE <<>>

CategoryLabels == {Str(W_MCQ), Str(W_TrueFalse), Str(W_FillInBlank), Str(W_ShortAnswer)}

\* the priority table as C7 states it: the label itself when nothing matches
TableLabel(label) ==
    LET l == Lower(label)
    IN  IF Contains(l, W_mcq) \/ Contains(l, W_multiple) THEN W_MCQ
        ELSE IF Contains(l, W_true) \/ Contains(l, W_false) THEN W_TrueFalse
        ELSE IF Contains(l, W_fill) THEN W_FillInBlank
        ELSE IF Contains(l, W_short) \/ Contains(l, W_subjective) THEN W_ShortAnswer
        ELSE label

\* C7: the type of a normalized question follows the priority table, first
\* match winning on the lowercased label; a string matching nothing stays
\* the original string, letter case included; a type that is no string is
\* not rewritten into a category label.
C7_TypeTable ==
    npc >= 1 =>
        \A i \in 1..Len(Questions(ai_response)) :
            LET q == Questions(ai_response)[i]
                r == Questions(once)[i]
            IN  (IsDict(q) /\ HasKey(q, W_type)) =>
                    IF IsStr(Get(q, W_type))
                    THEN Get(r, W_type) = Str(TableLabel(Get(q, W_type).v))
                    ELSE Get(r, W_type) \notin CategoryLabels

\* the two options C8 names, for the answer of question q
TrueFalseOptions(q) ==
    LET b == HasKey(q, W_answer) /\ Lower(PyStr(Get(q, W_answer))) = W_true
    IN  List(<< Dict(<< <<W_text, Str(W_True)>>, <<W_isCorrect, Bool(b)>> >>),
                Dict(<< <<W_text, Str(W_False)>>, <<W_isCorrect, Bool(~b)>> >>) >>)

\* x holds exactly two option records whose isCorrect are booleans, one true
ExclusivePair(x) ==
    /\ IsList(x) /\ Len(x.v) = 2
    /\ \A n \in 1..2 : /\ IsDict(x.v[n]) /\ HasKey(x.v[n], W_isCorrect)
                       /\ Get(x.v[n], W_isCorrect) \in {Bool(TRUE), Bool(FALSE)}
    /\ Get(x.v[1], W_isCorrect) # Get(x.v[2], W_isCorrect)

\* C8 as stated: every normalized question of type True/False has exactly
\* two option records with mutually exclusive isCorrect, and those of a
\* question that came without options are True then False, True correct
\* exactly when the answer's string form is "true" in any letter case.
C8_AsStated ==
    npc >= 1 =>
        \A i \in 1..Len(Questions(ai_response)) :
            LET q == Questions(ai_response)[i]
                r == Questions(once)[i]
            IN  (IsDict(q) /\ HasKey(r, W_type) /\ Get(r, W_type) = Str(W_TrueFalse)) =>
                    /\ HasKey(r, W_options) /\ ExclusivePair(Get(r, W_options))
                    /\ ~HasKey(q, W_options) => Get(r, W_options) = TrueFalseOptions(q)

\* C8 amended: every normalized question of type True/False that came
\* without an options field has exactly two option records with mutually
\* exclusive isCorrect: True then False, True correct exactly when the
\* answer's string form is "true" in any letter case (false for an absent
\* or any other answer).
C8_SynthesizedPair ==
    npc >= 1 =>
        \A i \in 1..Len(Questions(ai_response)) :
            LET q == Questions(ai_response)[i]
                r == Questions(once)[i]
            IN  (IsDict(q) /\ HasKey(r, W_type) /\ Get(r, W_type) = Str(W_TrueFalse)
                 /\ ~HasKey(q, W_options)) =>
                    /\ HasKey(r, W_options) /\ ExclusivePair(Get(r, W_options))
                    /\ Get(r, W_options) = TrueFalseOptions(q)

\* C8's case: type "true_false", answer "True", no options, normalized to
\* True (correct) and False (not correct).
C8_Witness ==
    /\ npc >= 1
    /\ Questions(ai_response) =
          << Dict(<< <<W_type, Str(<<"t", "r", "u", "e", "_", "f", "a", "l", "s", "e">>)>>,
                     <<W_answer, Str(W_True)>> >>) >>
    /\ Get(Questions(once)[1], W_options) =
          List(<< Dict(<< <<W_text, Str(W_True)>>, <<W_isCorrect, Bool(TRUE)>> >>),
                  Dict(<< <<W_text, Str(W_False)>>, <<W_isCorrect, Bool(FALSE)>> >>) >>)

\* the options sequence of a question, empty when it has none
Options(q) ==
    IF IsDict(q) /\ HasKey(q, W_options) /\ IsList(Get(q, W_options))
    THEN Get(q, W_options).v
    ELSE <<>>

\* C9 as stated: after normalization every option record of every question
\* has a boolean isCorrect and no correct, whatever its shape was.
C9_AsStated ==
    npc >= 1 =>
        \A i \in 1..Len(Questions(once)) :
        \A n \in 1..Len(Options(Questions(once)[i])) :
            LET o == Options(Questions(once)[i])[n]
            IN  IsDict(o) =>
                    /\ HasKey(o, W_isCorrect)
                    /\ Get(o, W_isCorrect) \in {Bool(TRUE), Bool(FALSE)}
                    /\ ~HasKey(o, W_correct)

\* C9 amended: an option record that came with correct and without
\* isCorrect ends with isCorrect, the boolean its correct coerces to, and
\* without correct, its other fields as they were; every other entry of
\* options (a record with both keys, with isCorrect only, with neither, or
\* no record at all) is left as it came.
C9_RenameOnly ==
    npc >= 1 =>
        \A i \in 1..Len(Questions(ai_response)) :
        \A n \in 1..Len(Options(Questions(ai_response)[i])) :
            LET o == Options(Questions(ai_response)[i])[n]
                r == Options(Questions(once)[i])[n]
            IN  IF IsDict(o) /\ HasKey(o, W_correct) /\ ~HasKey(o, W_isCorrect)
                THEN /\ IsDict(r) /\ ~HasKey(r, W_correct)
                     /\ HasKey(r, W_isCorrect)
                     /\ Get(r, W_isCorrect) = Bool(PyBool(Get(o, W_correct)))
                     /\ \A m \in 1..Len(o.v) :
                            o.v[m][1] # W_correct =>
                                HasKey(r, o.v[m][1]) /\ Get(r, o.v[m][1]) = o.v[m][2]
                     /\ Len(r.v) = Len(o.v)
                ELSE r = o

\* C9's case: {text: "x", correct: true} normalized to {text: "x",
\* isCorrect: true}.
C9_Witness ==
    /\ npc >= 1
    /\ \E i \in 1..Len(Questions(ai_response)) :
           /\ Options(Questions(ai_response)[i]) =
                 << Dict(<< <<W_text, Str(<<"x">>)>>, <<W_correct, Bool(TRUE)>> >>) >>
           /\ Options(Questions(once)[i]) =
                 << Dict(<< <<W_text, Str(<<"x">>)>>, <<W_isCorrect, Bool(TRUE)>> >>) >>

\* a canonical QuizResponse, as C10 describes it
IsCanonical(response) ==
    /\ IsDict(response) /\ HasKey(response, W_questions)
    /\ IsList(Get(response, W_questions))
    /\ \A i \in 1..Len(Questions(response)) :
          LET q == Questions(response)[i]
          IN  /\ IsDict(q)
              /\ HasKey(q, W_type) /\ Get(q, W_type) \in CategoryLabels
              /\ HasKey(q, W_options) => IsList(Get(q, W_options))
              /\ \A n \in 1..Len(Options(q)) :
                    /\ IsDict(Options(q)[n])
                    /\ HasKey(Options(q)[n], W_isCorrect)
                    /\ ~HasKey(Options(q)[n], W_correct)
              /\ Get(q, W_type) = Str(W_TrueFalse) => Len(Options(q)) = 2

\* C10: normalizing a canonical QuizResponse returns it unchanged, and
\* normalizing any parsed value twice gives what normalizing it once gives.
C10_Idempotent ==
    /\ (npc >= 1 /\ IsCanonical(ai_response)) => once = ai_response
    /\ npc = 2 => twice = once

\* C10's case: a canonical response with a True/False question carrying its
\* two options, normalized twice and unchanged.
C10_Witness ==
    /\ npc = 2
    /\ IsCanonical(ai_response)
    /\ \E i \in 1..Len(Questions(ai_response)) :
           /\ Get(Questions(ai_response)[i], W_type) = Str(W_TrueFalse)
           /\ Len(Options(Questions(ai_response)[i])) = 2
    /\ twice = ai_response

-----------------------------------------------------------------------------
(* Claims about the fence preference (Spec) *)

\* the positions where a triple-backtick fence starts
FencePositions(t) == {i \in 1..Len(t) : StartsWithAt(t, i, FENCE)}

\* t holds a fenced block: an opening fence and a closing fence after it
HasFencedBlock(t) == \E i, j \in FencePositions(t) : j >= i + 3

\* what stands inside the first fenced block of t, its json tag left out
FirstFenceContent(t) ==
    LET open == CHOOSE i \in FencePositions(t) : \A k \in FencePositions(t) : i <= k
        closers == {j \in FencePositions(t) : j >= open + 3}
        close == CHOOSE j \in closers : \A k \in closers : j <= k
        inner == SubSeq(t, open + 3, close - 1)
    IN  IF StartsWithAt(inner, 1, W_json)
        THEN SubSeq(inner, 5, Len(inner)) ELSE inner

\* C11: whenever the raw text holds a fenced block (tagged json or not), the
\* extractor works on the content of the first such fence, so what it
\* returns (payload or failure) is what the content alone gives, whatever
\* delimiters the prose outside holds and whether the fence wraps an object
\* or an array; without a fence it works on the raw text unmodified.
C11_FencePreferred ==
    QuizDone =>
        repaired = ExtractFrom(IF HasFencedBlock(response_text)
                               THEN FirstFenceContent(response_text)
                               ELSE response_text)

-----------------------------------------------------------------------------
(* Claims about the order of the generator calls (SpecGen) *)

\* the questions a generator text contributes: those of the mapping it
\* parses to, none when it is skipped
Batch(text) ==
    LET json_response == extract_json_from_response(text)
    IN  IF Line123(json_response) = "extend"
        THEN Get(json_response, W_questions).v ELSE <<>>

RECURSIVE ConcatBatches(_)
\* the batches of a sequence of calls, one after the other
ConcatBatches(cs) ==
    IF cs = <<>> THEN <<>>
    ELSE ConcatBatches(SubSeq(cs, 1, Len(cs) - 1)) \o Batch(cs[Len(cs)].text)

\* the categories of a distribution that get a call, in order
Called(dist) == SelectSeq(dist, LAMBDA c : c.count > 0)

\* the category of each call made, in order
CategoriesOf(cs) == [n \in 1..Len(cs) |-> [type |-> cs[n].type, count |-> cs[n].count]]

\* the last call made ended the request with an error
LastCallRaised == gpc = "done" /\ reply.error = "TypeError"

\* C12: generate calls the generator one category at a time in the order of
\* the distribution, never for a category whose count is <= 0: at every
\* moment the calls made are those of the categories with a positive count
\* among the ones passed, in order, and the questions gathered are the
\* batches of those calls concatenated in that order; the list returned is
\* that concatenation over all the categories.
C12_CategoryOrder ==
    (gpc # "start") =>
        /\ LET passed == IF LastCallRaised THEN idx ELSE idx - 1
           IN  CategoriesOf(calls) = Called(SubSeq(type_distribution, 1, passed))
        /\ all_questions = ConcatBatches(calls)
        /\ (reply.status = 200) =>
              /\ CategoriesOf(calls) = Called(type_distribution)
              /\ reply.body = Dict(<< <<W_questions, List(ConcatBatches(calls))>> >>)

\* C12's case: three categories for two questions (counts 1, 1, 0), two
\* calls in order answering one and two questions, the third category not
\* called, and the three questions returned in the order of the categories.
C12_Witness ==
    /\ gpc = "done" /\ reply.status = 200
    /\ Len(type_distribution) = 3 /\ type_distribution[3].count = 0
    /\ Len(calls) = 2
    /\ calls[1].type = type_distribution[1].type
    /\ calls[2].type = type_distribution[2].type
    /\ Batch(calls[1].text) = <<Str(<<"a">>)>>
    /\ Batch(calls[2].text) = <<Str(<<"b">>), Str(<<"c">>)>>
    /\ reply.body = Dict(<< <<W_questions,
                              List(<<Str(<<"a">>), Str(<<"b">>), Str(<<"c">>)>>)>> >>)

=============================================================================
